---- MODULE Spec2Model ----
(***************************************************************************)
(* A model of the thrift_parser repository:                                *)
(*   - src/src/compile.rs : the compile driver (Compiler::compile, the     *)
(*     per-file task of Compiler::compile_file, the error channel, the     *)
(*     seen vector, the rayon pool);                                       *)
(*   - src/src/lib.rs     : the nom parser, as functions on character      *)
(*     sequences;                                                          *)
(*   - src/src/visit.rs   : the visitor.                                   *)
(***************************************************************************)
EXTENDS Bags, FiniteSets, Integers, Sequences, TLC

VARIABLES
  world,       \* the run's inputs: source tree contents, input list, prior out_dir
  driver,      \* position of Compiler::compile
  next_input,  \* index of the next element of self.input to submit
  result,      \* what compile returned
  queue,       \* bag of files whose task is in the pool and has not started
  running,     \* bag of started tasks, [file, pc]
  seen,        \* the shared Vec<String> behind the mutex
  senders,     \* number of live clones of err_sender
  chan,        \* messages in the error channel
  rx_alive,    \* err_receiver has not been dropped
  panic,       \* the first unwrap that panicked in a task
  aborted,     \* the pool, which has no panic handler, has aborted the process
  lost,        \* workers whose task panicked: they take no further task
  out_files,   \* files that exist outside the source tree (the output tree)
  out_dirs,    \* directories created by create_dir_all
  reads,       \* history: per source file, number of fs::read_to_string calls on it
  writes,      \* history: per source file, number of fs::write calls for it
  written,     \* history: locations written by fs::write in this run
  sent,        \* history: every message a task sent successfully, in order
  teardowns,   \* history: number of remove_dir_all calls
  submitted,   \* history: number of compile_file calls
  pcase,       \* parser runs: what the text was built from, and the parser to apply
  ptext,       \* parser runs: the input text
  presult      \* parser runs: its result

drv_vars == <<driver, next_input, result, queue, running, seen, senders, chan,
              rx_alive, panic, aborted, lost, out_files, out_dirs, reads, writes, written,
              sent, teardowns, submitted>>
parse_vars == <<pcase, ptext, presult>>
vars == <<world, drv_vars, parse_vars>>

(***************************************************************************)
(* Bounds.                                                                 *)
(***************************************************************************)
\* Workers of the pool.
NumWorkers == 2
\* Bytes a path may have below the root of the tree before the file system
\* refuses it: the root lies that far below PATH_MAX.
PathRoom == 19
\* Entries of self.input.
MaxInputs == 2

(***************************************************************************)
(* Paths.  A path string is a sequence of segments; a segment is           *)
(* <<name, extension>>, the extension "" when the segment has none.  The   *)
(* paths lie below one directory, the root <<>>, which stands for a        *)
(* directory whose own absolute path has RootBytes bytes.                  *)
(***************************************************************************)
Dir(n) == <<n, "">>
Thrift(n) == <<n, "thrift">>
DotDot == Dir("..")
Dot == Dir(".")

src_dir == <<Dir("src")>>
\* The name of out_dir is longer than that of src_dir by more than ".thrift"
\* is longer than ".ts": an output path can be longer than the path of its
\* source.
out_dir == <<Dir("generated")>>

\* The source tree on disk (locations: absolute, no "." or ".." segments).
FileA == <<Dir("src"), Thrift("A")>>
FileB == <<Dir("src"), Thrift("B")>>
FileC == <<Dir("src"), Dir("d"), Thrift("C")>>
FileE == <<Thrift("E")>>
FileX == <<Dir("srcX"), Thrift("A")>>
SrcFiles == {FileA, FileB, FileC, FileE, FileX}

\* q lies in the directory p or below it.
IsPrefix(p, q) == Len(p) <= Len(q) /\ SubSeq(q, 1, Len(p)) = p
Front(p) == SubSeq(p, 1, Len(p) - 1)
Last(p) == p[Len(p)]

\* Directories of the source tree.
SrcDirs == UNION { { SubSeq(f, 1, n) : n \in 0..(Len(f) - 1) } : f \in SrcFiles }

\* Path::join of a relative path: the segments are appended, nothing is normalised.
Join(base, rel) == base \o rel

RECURSIVE TrimDots(_)
TrimDots(p) == IF p # <<>> /\ Last(p) = Dot THEN TrimDots(Front(p)) ELSE p

\* Path::parent: a trailing "." is no component, so the component dropped
\* is the last one before it; Components::as_path then trims the "."
\* components that end what is left (a ".." component is kept).  The root
\* has no parent; the paths of a task end in a file name.
Parent(p) == TrimDots(Front(TrimDots(p)))

\* The text of a segment, and the segment a text without "/" makes
\* (Path::file_stem and Path::extension: the name is split at its last dot,
\* unless it is ".." or its only dot is the first character).
SegText(s) == IF s[2] = "" THEN s[1] ELSE s[1] \o "." \o s[2]
RECURSIVE LastDot(_, _)
LastDot(text, n) ==
  IF n = 0 THEN 0 ELSE IF SubSeq(text, n, n) = "." THEN n ELSE LastDot(text, n - 1)
SegOf(text) ==
  IF text = ".." \/ LastDot(text, Len(text)) <= 1 THEN <<text, "">>
  ELSE << SubSeq(text, 1, LastDot(text, Len(text)) - 1),
          SubSeq(text, LastDot(text, Len(text)) + 1, Len(text)) >>
\* str::starts_with
StartsWith(text, pre) == Len(pre) <= Len(text) /\ SubSeq(text, 1, Len(pre)) = pre

\* file.strip_prefix(&src_dir) on the strings: pre is a prefix of file,
\* character by character.  No segment holds a "/", so the segments before
\* the last one of pre are those of file, and the text of the last one starts
\* the text of the segment of file at its place.
HasPrefix(file, pre) ==
  \/ pre = <<>>
  \/ /\ Len(pre) <= Len(file)
     /\ SubSeq(file, 1, Len(pre) - 1) = Front(pre)
     /\ StartsWith(SegText(file[Len(pre)]), SegText(Last(pre)))
\* What strip_prefix leaves, with one leading "/" stripped (compile.rs
\* 104-108): the rest of the segment the prefix ends in, when there is one,
\* and the segments after it.
StripPrefix(file, pre) ==
  IF pre = <<>> \/ SegText(file[Len(pre)]) = SegText(Last(pre))
  THEN SubSeq(file, Len(pre) + 1, Len(file))
  ELSE << SegOf(SubSeq(SegText(file[Len(pre)]), Len(SegText(Last(pre))) + 1,
                       Len(SegText(file[Len(pre)])))) >>
         \o SubSeq(file, Len(pre) + 1, Len(file))

\* PathBuf::set_extension("ts"): replaces the extension of the file name, adds
\* one when there is none.  The file name is the last component, trailing
\* "." segments passed over, and the path is cut after its stem; no effect
\* when the path has no file name (it ends in "..", or is the root).
SetExtension(p, ext) ==
  IF TrimDots(p) = <<>> \/ Last(TrimDots(p)) = DotDot THEN p
  ELSE Append(Front(TrimDots(p)), <<Last(TrimDots(p))[1], ext>>)

\* PathBuf::from(&out_dir).join(relative_file) with set_extension("ts").
OutFile(relative_file) == SetExtension(Join(out_dir, relative_file), "ts")

\* The parent of a location.  The root is a directory deep in the file
\* system: its parent is the location <<DotDot>>, whose parent is
\* <<DotDot, DotDot>>; a location that starts with ".." is outside the tree.
Up(cur) == IF cur = <<>> \/ Last(cur) = DotDot THEN Append(cur, DotDot) ELSE Front(cur)
\* The directories above the root; they exist.
AboveRoot(cur) == cur # <<>> /\ \A n \in 1..Len(cur) : cur[n] = DotDot

\* What the file system makes of a path whose directories all exist:
\* "." stays, ".." goes to the parent.
RECURSIVE Normalize(_, _)
Normalize(cur, rest) ==
  IF rest = <<>> THEN cur
  ELSE LET s == Head(rest) IN
       IF s = Dot THEN Normalize(cur, Tail(rest))
       ELSE IF s = DotDot
            THEN Normalize(Up(cur), Tail(rest))
            ELSE Normalize(Append(cur, s), Tail(rest))
Location(p) == Normalize(<<>>, p)

\* Path resolution on the source tree: every directory walked through must exist.
RECURSIVE Walk(_, _)
Walk(cur, rest) ==
  IF rest = <<>> THEN [ok |-> TRUE, loc |-> cur]
  ELSE IF cur \notin SrcDirs /\ ~AboveRoot(cur) THEN [ok |-> FALSE, loc |-> cur]
  ELSE LET s == Head(rest) IN
       IF s = Dot THEN Walk(cur, Tail(rest))
       ELSE IF s = DotDot
            THEN Walk(Up(cur), Tail(rest))
            ELSE Walk(Append(cur, s), Tail(rest))

\* Linux: a path of PATH_MAX bytes or more, the final NUL counted, is
\* refused with ENAMETOOLONG.
PATH_MAX == 4096
RootBytes == PATH_MAX - 1 - PathRoom
\* Bytes of the path string: a "/" and its text for every segment.
SegBytes(s) == Len(s[1]) + (IF s[2] = "" THEN 0 ELSE 1 + Len(s[2]))
RECURSIVE PathBytes(_)
PathBytes(p) == IF p = <<>> THEN 0 ELSE PathBytes(Front(p)) + 1 + SegBytes(Last(p))

\* fs::read_to_string(&file) succeeds: the path is not too long and names a file.
Readable(file) ==
  /\ RootBytes + PathBytes(file) < PATH_MAX
  /\ Walk(<<>>, file).ok
  /\ Walk(<<>>, file).loc \in SrcFiles

\* The path string is refused with ENAMETOOLONG.
TooLong(p) == RootBytes + PathBytes(p) >= PATH_MAX

\* Directories create_dir_all(p) walks through: p and its ancestors, through
\* every ".." on the way; it creates those that do not exist yet.
RECURSIVE DirsOf(_)
DirsOf(p) == IF p = <<>> THEN {} ELSE {Location(p)} \cup DirsOf(Front(p))
Created(p) == { d \in DirsOf(p) : d \notin SrcDirs /\ ~AboveRoot(d) }

UnderOut(loc) == IsPrefix(out_dir, loc)

(***************************************************************************)
(* The inputs of a run.                                                    *)
(***************************************************************************)
\* Include paths a file may hold (IncludeDefinition.path.value).
IncludePaths ==
  { <<Thrift("A")>>, <<Thrift("B")>>,
    <<Dir("d"), Thrift("C")>>, <<Dot, Dir("d"), Thrift("C")>>,
    <<DotDot, Thrift("A")>>, <<DotDot, Thrift("E")>> }

\* Entries of self.input: relative to src_dir, or absolute.
Rel(p) == [abs |-> FALSE, path |-> p]
Abs(p) == [abs |-> TRUE, path |-> p]
InputPaths == { Rel(<<Thrift("A")>>), Rel(<<Thrift("B")>>) }
\* A file outside src_dir, and a file in a directory whose name starts with
\* the name of src_dir.
AbsInputPaths == { Abs(FileE), Abs(FileX) }

\* What a prior run may have left: no out_dir, an empty one, or one with
\* output files.
StaleSets ==
  { [dirs |-> {}, files |-> {}],
    [dirs |-> {out_dir}, files |-> {}],
    [dirs |-> {out_dir},
     files |-> { Append(out_dir, <<"A", "ts">>), Append(out_dir, <<"Z", "ts">>) }] }

\* The include directives of one file: none, any one path, or the pair that
\* makes a file spawn two tasks.
IncludeSets ==
  {{}} \cup { {p} : p \in IncludePaths }
       \cup { { <<Thrift("B")>>, <<Dir("d"), Thrift("C")>> } }
SeqsUpTo(S, n) == UNION { [1..k -> S] : k \in 1..n }
\* self.input: up to MaxInputs relative entries, or one absolute entry.
InputLists == SeqsUpTo(InputPaths, MaxInputs) \cup { <<a>> : a \in AbsInputPaths }
\* The include directives of the files: FileX holds none.
IncludeMaps ==
  { [f \in SrcFiles |-> IF f = FileX THEN {} ELSE g[f]] :
      g \in [SrcFiles \ {FileX} -> IncludeSets] }

\* Files the include graph reaches from the inputs through files that parse.
RECURSIVE ReachFrom(_, _, _)
ReachFrom(w, done, todo) ==
  IF todo = {} THEN done
  ELSE LET f == CHOOSE g \in todo : TRUE
           nxt == IF f \in w.bad THEN {}
                  ELSE { Walk(<<>>, Join(Front(f), d)).loc : d \in w.includes[f] }
                         \cap SrcFiles
       IN ReachFrom(w, done \cup {f}, (todo \cup nxt) \ (done \cup {f}))

\* compile.rs 56-60: a relative input is joined to src_dir.
InputFile(w, i) ==
  IF w.input[i].abs THEN w.input[i].path ELSE Join(src_dir, w.input[i].path)
Reachable(w) ==
  ReachFrom(w, {}, { Location(InputFile(w, i)) : i \in 1..Len(w.input) } \cap SrcFiles)

\* The include directives a file that does not parse may hold.
BadIncludeSets == { {}, { <<Thrift("B")>>, <<Dir("d"), Thrift("C")>> } }

\* Files no task can read hold nothing: they cannot matter.
Canonical(w) ==
  /\ \A f \in SrcFiles \ Reachable(w) : w.includes[f] = {} /\ f \notin w.bad
  /\ \A f \in w.bad : w.includes[f] \in BadIncludeSets

\* Every include directive names a file of the source tree.
IncludesExist(w) ==
  \A f \in SrcFiles : \A d \in w.includes[f] :
     LET r == Walk(<<>>, Join(Front(f), d)) IN r.ok /\ r.loc \in SrcFiles

Worlds ==
  { w \in [ includes : IncludeMaps,
            bad      : SUBSET (SrcFiles \ {FileX}),
            input    : InputLists,
            stale    : StaleSets ] : Canonical(w) /\ IncludesExist(w) }

(***************************************************************************)
(* The compile driver.                                                     *)
(***************************************************************************)
NoResult == [kind |-> "none"]
OkResult == [kind |-> "Ok"]
ErrResult(m) == [kind |-> "Err", msg |-> m]

\* format!("Compiler failed: {}. {}", relative_file, err)
CompilerFailed(relative_file) ==
  [head |-> "Compiler failed: ", relative_file |-> relative_file, err |-> "parse error"]

ZeroCount == [f \in SrcFiles |-> 0]

DriverInit ==
  /\ world \in Worlds
  /\ driver = "teardown"
  /\ next_input = 1
  /\ result = NoResult
  /\ queue = EmptyBag
  /\ running = EmptyBag
  /\ seen = {}
  /\ senders = 1
  /\ chan = <<>>
  /\ rx_alive = TRUE
  /\ panic = "none"
  /\ aborted = FALSE
  /\ lost = 0
  /\ out_files = world.stale.files
  /\ out_dirs = world.stale.dirs
  /\ reads = ZeroCount
  /\ writes = ZeroCount
  /\ written = {}
  /\ sent = <<>>
  /\ teardowns = 0
  /\ submitted = 0

ParseIdle ==
  /\ pcase = [rule |-> "none"]
  /\ ptext = <<>>
  /\ presult = [st |-> "none"]

Init == DriverInit /\ ParseIdle

\* The process runs.
Alive == ~aborted

\* The panic of a task unwinds its closure, which drops its sender clone; the
\* worker takes no further task, and the pool then aborts the process (Abort).
Panicked(kind) == IF panic = "none" THEN kind ELSE panic

\* out_dir_path.exists()
OutDirExists == out_dir \in out_dirs

\* Mutant of RemoveOutDir: the exists() test inverted, nothing is removed.
RemoveOutDir_Inverted ==
  /\ Alive /\ driver = "teardown"
  /\ driver' = "submit"
  /\ UNCHANGED <<parse_vars, world, next_input, result, queue, running, seen,
                 senders, chan, rx_alive, panic, aborted, lost, out_files, out_dirs, reads,
                 writes, written, sent, teardowns, submitted>>

\* compile.rs 51-53: if out_dir exists, remove_dir_all(out_dir).
RemoveOutDir ==
  /\ Alive /\ driver = "teardown"
  /\ IF OutDirExists
     THEN /\ out_files' = { f \in out_files : ~UnderOut(f) }
          /\ out_dirs' = { d \in out_dirs : ~UnderOut(d) }
          /\ teardowns' = teardowns + 1
     ELSE UNCHANGED <<out_files, out_dirs, teardowns>>
  /\ driver' = "submit"
  /\ UNCHANGED <<parse_vars, world, next_input, result, queue, running, seen, senders, chan,
                 rx_alive, panic, aborted, lost, reads, writes, written, sent, submitted>>

\* compile.rs 55-71: one iteration of self.input.iter().for_each: the file is
\* joined to src_dir and compile_file spawns its task with a sender clone.
SubmitInput ==
  /\ Alive /\ driver = "submit" /\ next_input <= Len(world.input)
  /\ queue' = queue (+) SetToBag({InputFile(world, next_input)})
  /\ senders' = senders + 1
  /\ submitted' = submitted + 1
  /\ next_input' = next_input + 1
  /\ UNCHANGED <<parse_vars, world, driver, result, running, seen, chan, rx_alive, panic, aborted, lost,
                 out_files, out_dirs, reads, writes, written, sent, teardowns>>

\* compile.rs 73: drop(err_sender).
DropSender ==
  /\ Alive /\ driver = "submit" /\ next_input > Len(world.input)
  /\ senders' = senders - 1
  /\ driver' = "recv"
  /\ UNCHANGED <<parse_vars, world, next_input, result, queue, running, seen, chan, rx_alive,
                 panic, aborted, lost, out_files, out_dirs, reads, writes, written, sent,
                 teardowns, submitted>>

\* compile.rs 75-77: recv() yields a message: compile returns Err(err); the
\* receiver is dropped with compile's frame.
RecvErr ==
  /\ Alive /\ driver = "recv" /\ chan # <<>>
  /\ result' = ErrResult(Head(chan))
  /\ chan' = Tail(chan)
  /\ rx_alive' = FALSE
  /\ driver' = "returned"
  /\ UNCHANGED <<parse_vars, world, next_input, queue, running, seen, senders, panic, aborted, lost,
                 out_files, out_dirs, reads, writes, written, sent, teardowns,
                 submitted>>

\* compile.rs 75-79: recv() fails once the channel is empty and every sender
\* is gone: compile returns Ok(()).
RecvDisconnected ==
  /\ Alive /\ driver = "recv" /\ chan = <<>> /\ senders = 0
  /\ result' = OkResult
  /\ rx_alive' = FALSE
  /\ driver' = "returned"
  /\ UNCHANGED <<parse_vars, world, next_input, queue, running, seen, senders, chan, panic, aborted, lost,
                 out_files, out_dirs, reads, writes, written, sent, teardowns,
                 submitted>>

(***************************************************************************)
(* The per-file task (the closure of compile_file).                        *)
(***************************************************************************)
\* A started task: its file, its position in the closure, its out_file once
\* it is computed, and the entries of deps_visitor.deps the for loop has not
\* reached yet.
Task(file, pc, out_file, deps) ==
  [file |-> file, pc |-> pc, out_file |-> out_file, deps |-> deps]
Step(t, pc, out_file, deps) ==
  (running (-) SetToBag({t})) (+) SetToBag({Task(t.file, pc, out_file, deps)})
\* Workers that can take a task.
Idle == BagCardinality(running) + lost < NumWorkers
Finish(t) == running (-) SetToBag({t})

\* seen_data.contains(&file)
SeenContains(file) == file \in seen

\* compile.rs 93-98: a worker takes the task; the file is in seen: return.
TaskSeen(file) ==
  /\ Alive /\ BagIn(file, queue) /\ Idle
  /\ SeenContains(file)
  /\ queue' = queue (-) SetToBag({file})
  /\ senders' = senders - 1
  /\ UNCHANGED <<parse_vars, world, driver, next_input, result, running, seen, chan, rx_alive,
                 panic, aborted, lost, out_files, out_dirs, reads, writes, written, sent,
                 teardowns, submitted>>

\* compile.rs 93-101: a worker takes the task; the file is new: push it.
TaskAdmit(file) ==
  /\ Alive /\ BagIn(file, queue) /\ Idle
  /\ ~SeenContains(file)
  /\ queue' = queue (-) SetToBag({file})
  /\ seen' = seen \cup {file}
  /\ running' = running (+) SetToBag({Task(file, "read", <<>>, {})})
  /\ UNCHANGED <<parse_vars, world, driver, next_input, result, senders, chan, rx_alive,
                 panic, aborted, lost, out_files, out_dirs, reads, writes, written, sent,
                 teardowns, submitted>>

ReadFile(t) == Walk(<<>>, t.file).loc

\* compile.rs 103: fs::read_to_string(&file) reads the file.
TaskRead(t) ==
  /\ Alive /\ BagIn(t, running) /\ t.pc = "read"
  /\ Readable(t.file)
  /\ reads' = [reads EXCEPT ![ReadFile(t)] = @ + 1]
  /\ running' = Step(t, "parse", <<>>, {})
  /\ UNCHANGED <<parse_vars, world, driver, next_input, result, queue, seen, senders, chan,
                 rx_alive, panic, aborted, lost, out_files, out_dirs, writes, written, sent,
                 teardowns, submitted>>

\* compile.rs 103-104: read_to_string(..).unwrap() panics, or, the file
\* read, strip_prefix(..).unwrap() panics.
TaskReadPanic(t) ==
  /\ Alive /\ BagIn(t, running)
  /\ \/ t.pc = "read" /\ ~Readable(t.file)
     \/ t.pc = "parse" /\ ~HasPrefix(t.file, src_dir)
  /\ panic' = Panicked(IF t.pc = "read" THEN "read_to_string" ELSE "strip_prefix")
  /\ running' = Finish(t)
  /\ lost' = lost + 1
  /\ senders' = senders - 1
  /\ UNCHANGED <<parse_vars, world, driver, next_input, result, queue, seen, aborted,
                 chan, rx_alive, out_files, out_dirs, reads, writes, written, sent,
                 teardowns, submitted>>
RelativeFile(t) == StripPrefix(t.file, src_dir)

\* compile.rs 104-119: the text does not parse; the receiver is alive: the
\* message is sent and the task returns.
TaskParseErrSend(t) ==
  /\ Alive /\ BagIn(t, running) /\ t.pc = "parse"
  /\ HasPrefix(t.file, src_dir)
  /\ ReadFile(t) \in world.bad
  /\ rx_alive
  /\ chan' = Append(chan, CompilerFailed(RelativeFile(t)))
  /\ sent' = Append(sent, CompilerFailed(RelativeFile(t)))
  /\ running' = Finish(t)
  /\ senders' = senders - 1
  /\ UNCHANGED <<parse_vars, world, driver, next_input, result, queue, seen, rx_alive, panic, aborted, lost,
                 out_files, out_dirs, reads, writes, written, teardowns, submitted>>

\* compile.rs 104-116: the text does not parse; the receiver is gone: send
\* returns Err, unwrap panics.
TaskParseErrPanic(t) ==
  /\ Alive /\ BagIn(t, running) /\ t.pc = "parse"
  /\ HasPrefix(t.file, src_dir)
  /\ ReadFile(t) \in world.bad
  /\ ~rx_alive
  /\ panic' = Panicked("send")
  /\ running' = Finish(t)
  /\ lost' = lost + 1
  /\ senders' = senders - 1
  /\ UNCHANGED <<parse_vars, world, driver, next_input, result, queue, seen, aborted,
                 chan, rx_alive, out_files, out_dirs, reads, writes, written, sent,
                 teardowns, submitted>>

\* compile.rs 104-126: the text parses; out_file is
\* PathBuf::from(&out_dir).join(relative_file) with set_extension("ts").
TaskParseOk(t) ==
  /\ Alive /\ BagIn(t, running) /\ t.pc = "parse"
  /\ HasPrefix(t.file, src_dir)
  /\ ReadFile(t) \notin world.bad
  /\ running' = Step(t, "mkdir", OutFile(RelativeFile(t)), {})
  /\ UNCHANGED <<parse_vars, world, driver, next_input, result, queue, seen, senders, chan,
                 rx_alive, panic, aborted, lost, out_files, out_dirs, reads, writes, written, sent,
                 teardowns, submitted>>

\* The location is a directory.
IsDir(loc) == loc \in SrcDirs \cup out_dirs \/ AboveRoot(loc)
\* fs::create_dir_all(p) fails: the path is too long, or one of the
\* directories to walk through is a file.
CreateDirFails(p) ==
  TooLong(p) \/ \E d \in DirsOf(p) : d \in SrcFiles \cup out_files
\* fs::write(p) fails: the path is too long, names a directory, or walks
\* through a directory that does not exist.
WriteFails(p) ==
  \/ TooLong(p)
  \/ IsDir(Location(p))
  \/ \E d \in DirsOf(Front(p)) : ~IsDir(d)

\* compile.rs 127: create_dir_all(out_file.parent().unwrap()) creates the
\* missing directories.
TaskCreateDirAll(t) ==
  /\ Alive /\ BagIn(t, running) /\ t.pc = "mkdir"
  /\ ~CreateDirFails(Parent(t.out_file))
  /\ out_dirs' = out_dirs \cup Created(Parent(t.out_file))
  /\ running' = Step(t, "write", t.out_file, {})
  /\ UNCHANGED <<parse_vars, world, driver, next_input, result, queue, seen, senders, chan,
                 rx_alive, panic, aborted, lost, out_files, reads, writes, written, sent,
                 teardowns, submitted>>

\* DepsVisitor.deps after visit_document: the include paths of the file.
Deps(t) == world.includes[ReadFile(t)]

\* compile.rs 128-132: fs::write(out_file) writes the file; the visitor then
\* collects the includes of the document.
TaskWrite(t) ==
  /\ Alive /\ BagIn(t, running) /\ t.pc = "write"
  /\ ~WriteFails(t.out_file)
  /\ out_files' = out_files \cup {Location(t.out_file)}
  /\ written' = written \cup {Location(t.out_file)}
  /\ writes' = [writes EXCEPT ![ReadFile(t)] = @ + 1]
  /\ running' = Step(t, "spawn", t.out_file, Deps(t))
  /\ UNCHANGED <<parse_vars, world, driver, next_input, result, queue, seen, senders, chan,
                 rx_alive, panic, aborted, lost, out_dirs, reads, sent, teardowns, submitted>>

\* compile.rs 127-128: create_dir_all(..).unwrap() or fs::write(..).unwrap()
\* panics; nothing is created or written.  With the names of this model the
\* path handed to create_dir_all is shorter than the path of the source, which
\* was read: it is fs::write that meets a path that is too long.
TaskWritePanic(t) ==
  /\ Alive /\ BagIn(t, running)
  /\ \/ t.pc = "mkdir" /\ CreateDirFails(Parent(t.out_file))
     \/ t.pc = "write" /\ WriteFails(t.out_file)
  /\ panic' = Panicked(IF t.pc = "mkdir" THEN "create_dir_all" ELSE "write")
  /\ running' = Finish(t)
  /\ lost' = lost + 1
  /\ senders' = senders - 1
  /\ UNCHANGED <<parse_vars, world, driver, next_input, result, queue, seen, aborted,
                 chan, rx_alive, out_files, out_dirs, reads, writes, written, sent,
                 teardowns, submitted>>

\* compile.rs 135-140: Path::new(&file).parent().unwrap().join(&dep)
DepFile(file, dep) == Join(Parent(file), dep)

\* compile.rs 134-151: one iteration of the loop over deps_visitor.deps, a
\* HashSet, whose order is any: compile_file spawns the task of one dep with
\* a sender clone.
TaskSpawn(t) ==
  /\ Alive /\ BagIn(t, running) /\ t.pc = "spawn"
  /\ \E dep \in t.deps :
       /\ queue' = queue (+) SetToBag({DepFile(t.file, dep)})
       /\ running' = Step(t, "spawn", t.out_file, t.deps \ {dep})
  /\ senders' = senders + 1
  /\ submitted' = submitted + 1
  /\ UNCHANGED <<parse_vars, world, driver, next_input, result, seen, chan, rx_alive, panic, aborted, lost,
                 out_files, out_dirs, reads, writes, written, sent, teardowns>>

\* compile.rs 151-152: the loop is over, the closure ends and its sender is
\* dropped.
TaskReturn(t) ==
  /\ Alive /\ BagIn(t, running) /\ t.pc = "spawn" /\ t.deps = {}
  /\ running' = Finish(t)
  /\ senders' = senders - 1
  /\ UNCHANGED <<parse_vars, world, driver, next_input, result, queue, seen, chan, rx_alive,
                 panic, aborted, lost, out_files, out_dirs, reads, writes, written, sent,
                 teardowns, submitted>>

\* compile.rs 42: the pool is built with no panic handler: after the panic of
\* a task, once its closure is unwound, the pool aborts the process.
Abort ==
  /\ Alive /\ panic # "none"
  /\ aborted' = TRUE
  /\ UNCHANGED <<parse_vars, world, driver, next_input, result, queue, running, seen,
                 senders, chan, rx_alive, panic, lost, out_files, out_dirs, reads,
                 writes, written, sent, teardowns, submitted>>

\* compile.rs 93-152: the steps the pool's workers can take.
TaskNext ==
  \/ \E file \in BagToSet(queue) : TaskSeen(file) \/ TaskAdmit(file)
  \/ \E t \in BagToSet(running) :
        \/ TaskRead(t) \/ TaskReadPanic(t) \/ TaskParseErrSend(t) \/ TaskParseErrPanic(t)
        \/ TaskParseOk(t) \/ TaskCreateDirAll(t) \/ TaskWrite(t)
        \/ TaskWritePanic(t) \/ TaskSpawn(t) \/ TaskReturn(t)

Next ==
  \/ RemoveOutDir
  \/ SubmitInput
  \/ DropSender
  \/ RecvErr
  \/ RecvDisconnected
  \/ \E file \in BagToSet(queue) : TaskSeen(file)
  \/ \E file \in BagToSet(queue) : TaskAdmit(file)
  \/ \E t \in BagToSet(running) : TaskRead(t)
  \/ \E t \in BagToSet(running) : TaskReadPanic(t)
  \/ \E t \in BagToSet(running) : TaskParseErrSend(t)
  \/ \E t \in BagToSet(running) : TaskParseErrPanic(t)
  \/ \E t \in BagToSet(running) : TaskParseOk(t)
  \/ \E t \in BagToSet(running) : TaskCreateDirAll(t)
  \/ \E t \in BagToSet(running) : TaskWrite(t)
  \/ \E t \in BagToSet(running) : TaskWritePanic(t)
  \/ \E t \in BagToSet(running) : TaskSpawn(t)
  \/ \E t \in BagToSet(running) : TaskReturn(t)
  \/ Abort

Spec == Init /\ [][Next]_vars

(***************************************************************************)
(* The parser of lib.rs.  A text is a sequence of characters; a parser      *)
(* yields [st, rest, val]: st "ok" with the remaining input and the value,  *)
(* "err" for nom's Err::Error, "panic" when the parser panics.              *)
(***************************************************************************)
POk(rest, val) == [st |-> "ok", rest |-> rest, val |-> val]
PErr == [st |-> "err", rest |-> <<>>, val |-> <<>>]
PPanic == [st |-> "panic", rest |-> <<>>, val |-> <<>>]
\* Option<T>
None == <<>>
Some(v) == <<v>>

Multispace == {" ", "\t", "\n", "\r"}
Space == {" ", "\t"}
Digits == {"0", "1", "2", "3", "4", "5", "6", "7", "8", "9"}
LineEnd == {"\n", "\r"}
\* is_not(" \t\n\r-=(){}[]<>")
IdentifierStop == {" ", "\t", "\n", "\r", "-", "=", "(", ")", "{", "}", "[", "]", "<", ">"}

Drop(i, n) == SubSeq(i, n + 1, Len(i))
Take(i, n) == SubSeq(i, 1, n)

\* Length of the longest prefix of i made of characters in S / not in S.
RECURSIVE SpanIn(_, _)
SpanIn(S, i) == IF i # <<>> /\ Head(i) \in S THEN 1 + SpanIn(S, Tail(i)) ELSE 0
RECURSIVE SpanNotIn(_, _)
SpanNotIn(S, i) == IF i # <<>> /\ Head(i) \notin S THEN 1 + SpanNotIn(S, Tail(i)) ELSE 0

\* multispace0, space0: never fail.
multispace0(i) == Drop(i, SpanIn(Multispace, i))
space0(i) == Drop(i, SpanIn(Space, i))
\* space1
space1(i) == IF SpanIn(Space, i) = 0 THEN PErr ELSE POk(space0(i), <<>>)
\* tag(t)
tag(t, i) == IF Len(i) >= Len(t) /\ Take(i, Len(t)) = t THEN POk(Drop(i, Len(t)), t) ELSE PErr
\* is_not(S): at least one character
is_not(S, i) ==
  LET n == SpanNotIn(S, i) IN IF n = 0 THEN PErr ELSE POk(Drop(i, n), Take(i, n))
\* take_till(|c| c in S): possibly empty
take_till(S, i) == LET n == SpanNotIn(S, i) IN POk(Drop(i, n), Take(i, n))
\* take_until(pat): up to the first occurrence of pat, which must exist
RECURSIVE FindAt(_, _, _)
FindAt(pat, i, n) ==
  IF Len(i) - n < Len(pat) THEN -1
  ELSE IF SubSeq(i, n + 1, n + Len(pat)) = pat THEN n
  ELSE FindAt(pat, i, n + 1)
take_until(pat, i) ==
  LET n == FindAt(pat, i, 0) IN IF n < 0 THEN PErr ELSE POk(Drop(i, n), Take(i, n))
\* digit1
digit1(i) ==
  LET n == SpanIn(Digits, i) IN IF n = 0 THEN PErr ELSE POk(Drop(i, n), Take(i, n))

\* char::is_whitespace: the characters with the Unicode property White_Space.
\* A character that cannot be written in a string is named by its code point.
WhiteSpace ==
  { "\t", "\n", "U+000B", "\f", "\r", " ", "U+0085", "U+00A0", "U+1680",
    "U+2000", "U+2001", "U+2002", "U+2003", "U+2004", "U+2005", "U+2006",
    "U+2007", "U+2008", "U+2009", "U+200A", "U+2028", "U+2029", "U+202F",
    "U+205F", "U+3000" }
\* str::trim_start, str::trim_end, str::trim
TrimStart(s) == Drop(s, SpanIn(WhiteSpace, s))
RECURSIVE TrimEnd(_)
TrimEnd(s) == IF s # <<>> /\ s[Len(s)] \in WhiteSpace THEN TrimEnd(Take(s, Len(s) - 1)) ELSE s
Trim(s) == TrimEnd(TrimStart(s))

\* str::split('\n')
RECURSIVE Split(_, _)
Split(s, cur) ==
  IF s = <<>> THEN <<cur>>
  ELSE IF Head(s) = "\n" THEN <<cur>> \o Split(Tail(s), <<>>)
  ELSE Split(Tail(s), Append(cur, Head(s)))

\* lib.rs 205-215
identifier(i) == is_not(IdentifierStop, multispace0(i))

\* Sequencing (tuple, preceded, delimited, `?`): the first failure is the result.
Then(r, K(_)) == IF r.st # "ok" THEN r ELSE K(r)
\* alt: the next parser is tried on Err::Error only.
OrElse(r, other) == IF r.st = "err" THEN other ELSE r
\* map(p, f)
MapVal(r, F(_)) == IF r.st # "ok" THEN r ELSE POk(r.rest, F(r.val))
\* opt(p): Err::Error becomes None with the input untouched
Opt(r, i) == IF r.st = "err" THEN POk(i, None) ELSE MapVal(r, Some)
\* many0(p): r is p applied at i; Err::Error ends the list, a parser that
\* consumed nothing is an error.
Many0(r, i, acc, Again(_, _)) ==
  IF r.st = "ok"
  THEN IF Len(r.rest) = Len(i) THEN PErr ELSE Again(r.rest, Append(acc, r.val))
  ELSE IF r.st = "err" THEN POk(i, acc) ELSE r

\* lib.rs 217-227
string_literal(i) ==
  Then(tag(<<"\"">>, i), LAMBDA a :
  Then(take_till({"\""}, a.rest), LAMBDA b :
  Then(tag(<<"\"">>, b.rest), LAMBDA c : POk(c.rest, b.val))))

\* lib.rs 229-243
namespace_definition(i) ==
  Then(tag(<<"n", "a", "m", "e", "s", "p", "a", "c", "e">>, multispace0(i)), LAMBDA a :
  Then(space1(a.rest), LAMBDA b :
  Then(identifier(b.rest), LAMBDA c :
  Then(identifier(c.rest), LAMBDA d :
  POk(d.rest, [kind |-> "Namespace", scope |-> c.val, name |-> d.val])))))

\* lib.rs 245-253
include_definition(i) ==
  Then(tag(<<"i", "n", "c", "l", "u", "d", "e">>, multispace0(i)), LAMBDA a :
  Then(space1(a.rest), LAMBDA b :
  MapVal(string_literal(b.rest), LAMBDA v : [kind |-> "Include", path |-> v])))

\* usize::MAX, 2^64 - 1, as digits
UsizeMax == <<"1", "8", "4", "4", "6", "7", "4", "4", "0", "7", "3", "7", "0", "9", "5", "5", "1", "6", "1", "5">>
DigitValue(c) == CHOOSE n \in 0..9 : <<"0", "1", "2", "3", "4", "5", "6", "7", "8", "9">>[n + 1] = c
RECURSIVE StripZeros(_)
StripZeros(d) == IF Len(d) > 1 /\ Head(d) = "0" THEN StripZeros(Tail(d)) ELSE d
\* d <= e for digit strings of the same length
RECURSIVE DigitsLeq(_, _)
DigitsLeq(d, e) ==
  IF d = <<>> THEN TRUE
  ELSE IF DigitValue(Head(d)) # DigitValue(Head(e)) THEN DigitValue(Head(d)) < DigitValue(Head(e))
  ELSE DigitsLeq(Tail(d), Tail(e))
\* str::parse::<usize>() is Ok
FitsUsize(d) ==
  LET c == StripZeros(d) IN
  Len(c) < Len(UsizeMax) \/ (Len(c) = Len(UsizeMax) /\ DigitsLeq(c, UsizeMax))

\* lib.rs 255-264: the value is the number written, here its digits without
\* leading zeros; parse::<usize>().unwrap() panics on overflow.
field_id(i) ==
  Then(digit1(multispace0(i)), LAMBDA a :
  Then(tag(<<":">>, a.rest), LAMBDA b :
  IF FitsUsize(a.val) THEN POk(b.rest, StripZeros(a.val)) ELSE PPanic))

\* lib.rs 266-278
requiredness(i) ==
  Then(space1(i), LAMBDA a :
  OrElse(MapVal(tag(<<"o", "p", "t", "i", "o", "n", "a", "l">>, a.rest), LAMBDA v : "Optional"),
         MapVal(tag(<<"r", "e", "q", "u", "i", "r", "e", "d">>, a.rest), LAMBDA v : "Required")))

\* ThriftType, lib.rs 104-116
Primitive(name) == [tag |-> name, name |-> <<>>, args |-> <<>>]
ListOf(t) == [tag |-> "List", name |-> <<>>, args |-> <<t>>]
MapOf(k, v) == [tag |-> "Map", name |-> <<>>, args |-> <<k, v>>]
Named(id) == [tag |-> "Identifier", name |-> id, args |-> <<>>]

\* lib.rs 317-323: the primitive keywords, in the order alt tries them
PrimitiveTags ==
  << <<<<"v", "o", "i", "d">>, "Void">>, <<<<"s", "t", "r", "i", "n", "g">>, "String">>, <<<<"i", "1", "6">>, "I16">>,
     <<<<"i", "3", "2">>, "I32">>, <<<<"i", "6", "4">>, "I64">>, <<<<"d", "o", "u", "b", "l", "e">>, "Double">>,
     <<<<"b", "o", "o", "l">>, "Bool">> >>
PrimitiveKeywords == { PrimitiveTags[n][1] : n \in 1..Len(PrimitiveTags) }
RECURSIVE primitive_type(_, _)
primitive_type(i, n) ==
  IF n > Len(PrimitiveTags) THEN PErr
  ELSE OrElse(MapVal(tag(PrimitiveTags[n][1], i), LAMBDA v : Primitive(PrimitiveTags[n][2])),
              primitive_type(i, n + 1))

RECURSIVE thrift_type(_), list_type(_), map_type(_)
\* lib.rs 280-288
list_type(i) ==
  Then(tag(<<"l", "i", "s", "t">>, i), LAMBDA a :
  Then(tag(<<"<">>, a.rest), LAMBDA b :
  Then(thrift_type(b.rest), LAMBDA c :
  Then(tag(<<">">>, c.rest), LAMBDA d : POk(d.rest, c.val)))))

\* lib.rs 290-309
map_type(i) ==
  Then(tag(<<"m", "a", "p">>, i), LAMBDA a :
  Then(tag(<<"<">>, a.rest), LAMBDA b :
  Then(thrift_type(b.rest), LAMBDA k :
  Then(tag(<<",">>, space0(k.rest)), LAMBDA s :
  Then(thrift_type(space0(s.rest)), LAMBDA v :
  Then(tag(<<">">>, v.rest), LAMBDA d : POk(d.rest, <<k.val, v.val>>)))))))

\* lib.rs 311-330
thrift_type(i) ==
  LET j == space0(i) IN
  OrElse(primitive_type(j, 1),
  OrElse(MapVal(list_type(j), ListOf),
  OrElse(MapVal(map_type(j), LAMBDA kv : MapOf(kv[1], kv[2])),
         MapVal(identifier(j), Named))))

\* Comment, lib.rs 157-187: a line holds its text, a block its lines
CommentLine(v) == [kind |-> "Line", value |-> <<v>>]
CommentBlock(v) == [kind |-> "Block", value |-> v]

\* lib.rs 332-345
comment_line(i) ==
  Then(tag(<<"/", "/">>, multispace0(i)), LAMBDA a :
  MapVal(take_till(LineEnd, a.rest), LAMBDA v : CommentLine(Trim(v))))

\* lib.rs 359-363: the block is trimmed, split at newlines, each line trimmed
BlockLines(v) ==
  LET lines == Split(Trim(v), <<>>) IN [n \in 1..Len(lines) |-> Trim(lines[n])]

\* lib.rs 347-366
comment_block(i) ==
  Then(tag(<<"/", "*">>, multispace0(i)), LAMBDA a :
  Then(take_until(<<"*", "/">>, a.rest), LAMBDA b :
  Then(tag(<<"*", "/">>, b.rest), LAMBDA c : POk(c.rest, CommentBlock(BlockLines(b.val))))))

\* lib.rs 368-376
comment(i) == OrElse(comment_line(i), comment_block(i))

\* lib.rs 378-393
comment_inline(i) ==
  Then(tag(<<"/", "/">>, space0(i)), LAMBDA a :
  MapVal(take_till(LineEnd, a.rest), LAMBDA v : CommentLine(Trim(v))))

\* many0(comment)
RECURSIVE many0_comment(_, _)
many0_comment(i, acc) == Many0(comment(i), i, acc, many0_comment)

\* lib.rs 395-410
annotation(i) ==
  Then(identifier(i), LAMBDA a :
  Then(tag(<<"=">>, space0(a.rest)), LAMBDA b :
  MapVal(string_literal(space0(b.rest)), LAMBDA v : [name |-> a.val, value |-> v])))

\* separated_list1(tag(","), annotation), after the first element: the list
\* ends before a separator that no element follows
RECURSIVE more_annotations(_, _)
more_annotations(i, acc) ==
  OrElse(Then(tag(<<",">>, i), LAMBDA s :
         Then(annotation(s.rest), LAMBDA a :
         more_annotations(a.rest, Append(acc, a.val)))),
         POk(i, acc))

\* lib.rs 412-423
annotations(i) ==
  Then(tag(<<"(">>, space0(i)), LAMBDA a :
  Then(annotation(a.rest), LAMBDA b :
  Then(more_annotations(b.rest, <<b.val>>), LAMBDA c :
  Then(tag(<<")">>, c.rest), LAMBDA d : POk(d.rest, c.val)))))

\* Mutant of field_definition: the inline comment is put first (insert(0, ..)
\* in place of push).
field_definition_InlineFirst(i) ==
  Then(many0_comment(i, <<>>), LAMBDA c :
  Then(field_id(c.rest), LAMBDA id :
  Then(Opt(requiredness(id.rest), id.rest), LAMBDA rq :
  Then(thrift_type(rq.rest), LAMBDA ty :
  Then(identifier(ty.rest), LAMBDA nm :
  Then(Opt(annotations(nm.rest), nm.rest), LAMBDA an :
  Then(Opt(comment_inline(an.rest), an.rest), LAMBDA il :
  POk(il.rest, [ field_id |-> id.val, requiredness |-> rq.val,
                 field_type |-> ty.val, name |-> nm.val,
                 comments |-> il.val \o c.val, annotations |-> an.val ]))))))))

\* Mutant of field_definition: the primitive keywords are reserved, a field
\* may not be named by one.
field_definition_ReservedNames(i) ==
  Then(many0_comment(i, <<>>), LAMBDA c :
  Then(field_id(c.rest), LAMBDA id :
  Then(Opt(requiredness(id.rest), id.rest), LAMBDA rq :
  Then(thrift_type(rq.rest), LAMBDA ty :
  Then(identifier(ty.rest), LAMBDA nm :
  IF nm.val \in PrimitiveKeywords THEN PErr ELSE
  Then(Opt(annotations(nm.rest), nm.rest), LAMBDA an :
  Then(Opt(comment_inline(an.rest), an.rest), LAMBDA il :
  POk(il.rest, [ field_id |-> id.val, requiredness |-> rq.val,
                 field_type |-> ty.val, name |-> nm.val,
                 comments |-> c.val \o il.val, annotations |-> an.val ]))))))))

\* lib.rs 425-454
field_definition(i) ==
  Then(many0_comment(i, <<>>), LAMBDA c :
  Then(field_id(c.rest), LAMBDA id :
  Then(Opt(requiredness(id.rest), id.rest), LAMBDA rq :
  Then(thrift_type(rq.rest), LAMBDA ty :
  Then(identifier(ty.rest), LAMBDA nm :
  Then(Opt(annotations(nm.rest), nm.rest), LAMBDA an :
  Then(Opt(comment_inline(an.rest), an.rest), LAMBDA il :
  POk(il.rest, [ field_id |-> id.val, requiredness |-> rq.val,
                 field_type |-> ty.val, name |-> nm.val,
                 comments |-> c.val \o il.val, annotations |-> an.val ]))))))))

\* many0(field_definition)
RECURSIVE many0_field(_, _)
many0_field(i, acc) == Many0(field_definition(i), i, acc, many0_field)

\* lib.rs 456-481
struct_definition_without_comments(i) ==
  Then(tag(<<"s", "t", "r", "u", "c", "t">>, multispace0(i)), LAMBDA a :
  Then(identifier(a.rest), LAMBDA n :
  Then(tag(<<"{">>, multispace0(n.rest)), LAMBDA b :
  Then(many0_field(b.rest, <<>>), LAMBDA f :
  Then(tag(<<"}">>, multispace0(f.rest)), LAMBDA e :
  POk(e.rest, [kind |-> "Struct", name |-> n.val, fields |-> f.val, comments |-> <<>>]))))))

\* lib.rs 483-497
struct_definition(i) ==
  Then(many0_comment(multispace0(i), <<>>), LAMBDA c :
  MapVal(struct_definition_without_comments(c.rest), LAMBDA s : [s EXCEPT !.comments = c.val]))

\* lib.rs 505-509: "=" between spaces, then the digits
initializer(i) == Then(tag(<<"=">>, space0(i)), LAMBDA eq : digit1(space0(eq.rest)))

\* lib.rs 499-526
enum_member(i) ==
  Then(many0_comment(i, <<>>), LAMBDA c :
  Then(identifier(c.rest), LAMBDA nm :
  Then(Opt(initializer(nm.rest), nm.rest), LAMBDA init :
  Then(Opt(comment_inline(init.rest), init.rest), LAMBDA il :
  POk(il.rest, [name |-> nm.val, initializer |-> init.val, comments |-> c.val \o il.val])))))

\* many0(enum_member)
RECURSIVE many0_enum_member(_, _)
many0_enum_member(i, acc) == Many0(enum_member(i), i, acc, many0_enum_member)

\* lib.rs 528-553
enum_definition_without_comments(i) ==
  Then(tag(<<"e", "n", "u", "m">>, multispace0(i)), LAMBDA a :
  Then(identifier(a.rest), LAMBDA n :
  Then(tag(<<"{">>, multispace0(n.rest)), LAMBDA b :
  Then(many0_enum_member(b.rest, <<>>), LAMBDA m :
  Then(tag(<<"}">>, multispace0(m.rest)), LAMBDA e :
  POk(e.rest, [kind |-> "Enum", name |-> n.val, members |-> m.val, comments |-> <<>>]))))))

\* lib.rs 555-569
enum_definition(i) ==
  Then(many0_comment(multispace0(i), <<>>), LAMBDA c :
  MapVal(enum_definition_without_comments(c.rest), LAMBDA s : [s EXCEPT !.comments = c.val]))

\* lib.rs 571-597
function_definition_without_comments(i) ==
  Then(thrift_type(multispace0(i)), LAMBDA ty :
  Then(identifier(ty.rest), LAMBDA nm :
  Then(tag(<<"(">>, space0(nm.rest)), LAMBDA a :
  Then(many0_field(a.rest, <<>>), LAMBDA f :
  Then(tag(<<")">>, f.rest), LAMBDA b :
  Then(Opt(annotations(b.rest), b.rest), LAMBDA an :
  POk(an.rest, [ name |-> nm.val, return_type |-> ty.val, fields |-> f.val,
                 comments |-> <<>>, annotations |-> an.val ])))))))

\* lib.rs 599-613
function_definition(i) ==
  Then(many0_comment(multispace0(i), <<>>), LAMBDA c :
  MapVal(function_definition_without_comments(c.rest), LAMBDA s : [s EXCEPT !.comments = c.val]))

\* many0(function_definition)
RECURSIVE many0_function(_, _)
many0_function(i, acc) == Many0(function_definition(i), i, acc, many0_function)

\* lib.rs 615-640
service_definition_without_comments(i) ==
  Then(tag(<<"s", "e", "r", "v", "i", "c", "e">>, multispace0(i)), LAMBDA a :
  Then(identifier(a.rest), LAMBDA n :
  Then(tag(<<"{">>, multispace0(n.rest)), LAMBDA b :
  Then(many0_function(b.rest, <<>>), LAMBDA f :
  Then(tag(<<"}">>, multispace0(f.rest)), LAMBDA e :
  POk(e.rest, [kind |-> "Service", name |-> n.val, functions |-> f.val, comments |-> <<>>]))))))

\* lib.rs 642-656
service_definition(i) ==
  Then(many0_comment(multispace0(i), <<>>), LAMBDA c :
  MapVal(service_definition_without_comments(c.rest), LAMBDA s : [s EXCEPT !.comments = c.val]))

\* lib.rs 662-668: alt over the five top-level definitions
top_definition(i) ==
  OrElse(namespace_definition(i),
  OrElse(include_definition(i),
  OrElse(struct_definition(i),
  OrElse(enum_definition(i),
         service_definition(i)))))

\* many0(alt(..))
RECURSIVE many0_top(_, _)
many0_top(i, acc) == Many0(top_definition(i), i, acc, many0_top)

\* lib.rs 658-672
parse_thrift_document(i) == MapVal(many0_top(i, <<>>), LAMBDA defs : [body |-> defs])

(***************************************************************************)
(* The visitor of visit.rs and the DepsVisitor of compile.rs.  A visitor   *)
(* is [deps, calls]: the set DepsVisitor keeps, and the hooks called so    *)
(* far (history).  A hook gets the visitor and a node by &mut and yields   *)
(* both, [self, node].                                                     *)
(***************************************************************************)
\* compile.rs 160-166: DepsVisitor::new()
DepsVisitor_new == [deps |-> {}, calls |-> <<>>]

Called(self, hook) == [self EXCEPT !.calls = Append(@, hook)]
\* A for loop over &mut nodes: the visitor so far and the nodes passed.
Start(self) == [self |-> self, nodes |-> <<>>]
Push(acc, r) == [self |-> r.self, nodes |-> Append(acc.nodes, r.node)]

\* visit.rs 26
visit_namespace_definition(self, d) ==
  [self |-> Called(self, "visit_namespace_definition"), node |-> d]

\* Mutant of visit_include_definition: the default hook of the trait
\* (visit.rs 28), which records nothing.
visit_include_definition_Default(self, d) ==
  [self |-> Called(self, "visit_include_definition"), node |-> d]

\* compile.rs 168-172: DepsVisitor's override
visit_include_definition(self, d) ==
  [self |-> [Called(self, "visit_include_definition") EXCEPT !.deps = @ \cup {d.path}],
   node |-> d]

\* visit.rs 48, 50, 46
visit_struct_field_definition(self, d) ==
  [self |-> Called(self, "visit_struct_field_definition"), node |-> d]
visit_enum_member(self, d) == [self |-> Called(self, "visit_enum_member"), node |-> d]
visit_function_definition(self, d) ==
  [self |-> Called(self, "visit_function_definition"), node |-> d]

RECURSIVE for_each_field(_, _), for_each_member(_, _), for_each_function(_, _)
for_each_field(acc, rest) ==
  IF rest = <<>> THEN acc
  ELSE for_each_field(Push(acc, visit_struct_field_definition(acc.self, Head(rest))), Tail(rest))
for_each_member(acc, rest) ==
  IF rest = <<>> THEN acc
  ELSE for_each_member(Push(acc, visit_enum_member(acc.self, Head(rest))), Tail(rest))
for_each_function(acc, rest) ==
  IF rest = <<>> THEN acc
  ELSE for_each_function(Push(acc, visit_function_definition(acc.self, Head(rest))), Tail(rest))

\* visit.rs 30-34
visit_struct_definition(self, d) ==
  LET r == for_each_field(Start(Called(self, "visit_struct_definition")), d.fields)
  IN [self |-> r.self, node |-> [d EXCEPT !.fields = r.nodes]]
\* visit.rs 36-40
visit_enum_definition(self, d) ==
  LET r == for_each_member(Start(Called(self, "visit_enum_definition")), d.members)
  IN [self |-> r.self, node |-> [d EXCEPT !.members = r.nodes]]
\* visit.rs 42-46
visit_service_definition(self, d) ==
  LET r == for_each_function(Start(Called(self, "visit_service_definition")), d.functions)
  IN [self |-> r.self, node |-> [d EXCEPT !.functions = r.nodes]]

\* visit.rs 9-21: match definition
visit_definition(self, d) ==
  IF d.kind = "Namespace" THEN visit_namespace_definition(self, d)
  ELSE IF d.kind = "Include" THEN visit_include_definition(self, d)
  ELSE IF d.kind = "Struct" THEN visit_struct_definition(self, d)
  ELSE IF d.kind = "Enum" THEN visit_enum_definition(self, d)
  ELSE visit_service_definition(self, d)

RECURSIVE for_each_definition(_, _)
for_each_definition(acc, rest) ==
  IF rest = <<>> THEN acc
  ELSE for_each_definition(Push(acc, visit_definition(acc.self, Head(rest))), Tail(rest))

\* visit.rs 7-23
visit_document(self, document) ==
  LET r == for_each_definition(Start(self), document.body)
  IN [self |-> r.self, document |-> [body |-> r.nodes]]

(***************************************************************************)
(* Parser runs: a text drawn from a bounded family, and the parser applied *)
(* to it.                                                                  *)
(***************************************************************************)
\* Leading comments before a field or an enum member.
MaxLead == 2

RECURSIVE Concat(_)
Concat(ss) == IF ss = <<>> THEN <<>> ELSE Head(ss) \o Concat(Tail(ss))

\* -- type expressions ----------------------------------------------------
TypeLeaves == { Primitive("String"), Named(<<"a", ".", "A">>) }
Grow(S) == S \cup { ListOf(t) : t \in S } \cup { MapOf(k, v) : k \in S, v \in S }
\* Every type with at most three levels of list< > and map< , > around a leaf.
TypeDepth1 == Grow(TypeLeaves)
TypeDepth2 == Grow(TypeDepth1)
TypeExprs == Grow(TypeDepth2)
\* The separator of map<K,V> as written.
MapSeparators == { <<",">>, <<",", " ">> }

Keyword(name) ==
  LET n == CHOOSE k \in 1..Len(PrimitiveTags) : PrimitiveTags[k][2] = name
  IN PrimitiveTags[n][1]

RECURSIVE Render(_, _)
Render(t, sep) ==
  IF t.tag = "Identifier" THEN t.name
  ELSE IF t.tag = "List" THEN <<"l", "i", "s", "t", "<">> \o Render(t.args[1], sep) \o <<">">>
  ELSE IF t.tag = "Map"
       THEN <<"m", "a", "p", "<">> \o Render(t.args[1], sep) \o sep \o Render(t.args[2], sep) \o <<">">>
  ELSE Keyword(t.tag)

TypeCases == [rule : {"thrift_type"}, type : TypeExprs, sep : MapSeparators]

\* -- fields and enum members with comments --------------------------------
CommentKinds == {"Line", "Block"}
Leads == UNION { [1..k -> CommentKinds] : k \in 0..MaxLead }
\* What separates the field from its inline comment.
Gaps == { <<>>, <<" ">>, <<"\t">> }

Digit(n) == <<"0", "1", "2", "3", "4", "5", "6", "7", "8", "9">>[n + 1]
\* The n-th leading comment of a node, as written and as parsed.
LeadText(kind, tg, n) ==
  IF kind = "Line" THEN <<" ", " ", "/", "/", "\f", " ">> \o <<tg, Digit(n)>> \o <<"\n">>
  ELSE <<" ", " ", "/", "*", " ">> \o <<tg, Digit(n)>> \o <<" ", "*", "/">> \o <<"\n">>
LeadComment(kind, tg, n) ==
  IF kind = "Line" THEN CommentLine(<<tg, Digit(n)>>)
  ELSE CommentBlock(<< <<tg, Digit(n)>> >>)
LeadTexts(lead, tg) == Concat([n \in 1..Len(lead) |-> LeadText(lead[n], tg, n)])
LeadComments(lead, tg) == [n \in 1..Len(lead) |-> LeadComment(lead[n], tg, n)]
InlineText == <<"/", "/", " ", "i", "n", " ", "\f">>
InlineComment == CommentLine(<<"i", "n">>)

\* rule: the parser; lead: the comments before the first node; tail: whether
\* the node ends with an annotation list (field) or an initializer (member);
\* gap: what separates it from the inline comment; next: the comments before
\* the second node.
CommentCases ==
  [ rule : {"struct_definition", "enum_definition"}, lead : Leads,
    tail : BOOLEAN, gap : Gaps, next : { <<>>, <<"Line">>, <<"Block">> } ]

StructText(c) ==
  <<"s", "t", "r", "u", "c", "t", " ", "S", " ", "{">> \o <<"\n">> \o LeadTexts(c.lead, "p")
    \o <<" ", " ", "1", ":", " ", "s", "t", "r", "i", "n", "g", " ", "a">> \o (IF c.tail THEN <<" ", "(", "k", "=", "\"", "v", "\"", ")">> ELSE <<>>)
    \o c.gap \o InlineText \o <<"\n">>
    \o LeadTexts(c.next, "q") \o <<" ", " ", "2", ":", " ", "i", "3", "2", " ", "b">> \o <<"\n">> \o <<"}">>
EnumText(c) ==
  <<"e", "n", "u", "m", " ", "E", " ", "{">> \o <<"\n">> \o LeadTexts(c.lead, "p")
    \o <<" ", " ", "A">> \o (IF c.tail THEN <<" ", "=", " ", "0">> ELSE <<>>)
    \o c.gap \o InlineText \o <<"\n">>
    \o LeadTexts(c.next, "q") \o <<" ", " ", "B">> \o <<"\n">> \o <<"}">>
CommentText(c) == IF c.rule = "struct_definition" THEN StructText(c) ELSE EnumText(c)

\* -- fields named like a primitive type ---------------------------------------
FieldNames == PrimitiveKeywords \cup { <<"a">>, <<"s", "t", "r", "i", "n", "g", "s">> }
FieldTypeTexts == { <<"i", "3", "2">>, <<"s", "t", "r", "i", "n", "g">>, <<"l", "i", "s", "t", "<", "s", "t", "r", "i", "n", "g", ">">>, <<"a", ".", "A">> }
FieldRequiredness == { <<>>, <<" ", "o", "p", "t", "i", "o", "n", "a", "l">>, <<" ", "r", "e", "q", "u", "i", "r", "e", "d">> }
FieldCases ==
  [ rule : {"field_definition"}, req : FieldRequiredness,
    type : FieldTypeTexts, name : FieldNames ]
FieldText(c) == <<"1", ":">> \o c.req \o <<" ">> \o c.type \o <<" ">> \o c.name

\* -- documents ------------------------------------------------------------
\* Well-formed definitions a document may start with.
DocPrefixes ==
  { <<>>,
    <<"n", "a", "m", "e", "s", "p", "a", "c", "e", " ", "x", " ", "a", ".", "b", ".", "c">> \o <<"\n">>,
    <<"i", "n", "c", "l", "u", "d", "e", " ", "\"", "a", ".", "t", "h", "r", "i", "f", "t", "\"">> \o <<"\n">>,
    <<"s", "t", "r", "u", "c", "t", " ", "Y", " ", "{", " ", "1", ":", " ", "o", "p", "t", "i", "o", "n", "a", "l", " ", "i", "3", "2", " ", "n", " ", "}">> \o <<"\n">>,
    <<"e", "n", "u", "m", " ", "E", " ", "{", " ", "A", " ", "B", " ", "=", " ", "1", " ", "}">> \o <<"\n">>,
    <<"s", "e", "r", "v", "i", "c", "e", " ", "S", " ", "{", " ", "v", "o", "i", "d", " ", "F", "(", "1", ":", " ", "s", "t", "r", "i", "n", "g", " ", "s", ")", " ", "}">> \o <<"\n">> }
\* Definitions that are not well formed: a field with no name, a field with
\* no type, an unclosed body, an enum with no name, a function with no name.
Malformed ==
  { <<"s", "t", "r", "u", "c", "t", " ", "X", " ", "{", " ", "1", ":", " ", "s", "t", "r", "i", "n", "g", " ", "}">>,
    <<"s", "t", "r", "u", "c", "t", " ", "X", " ", "{", " ", "1", ":", " ", "}">>,
    <<"s", "t", "r", "u", "c", "t", " ", "X", " ", "{", " ", "1", ":", " ", "s", "t", "r", "i", "n", "g", " ", "a">>,
    <<"e", "n", "u", "m", " ", "{", " ", "A", " ", "}">>,
    <<"s", "e", "r", "v", "i", "c", "e", " ", "S", " ", "{", " ", "v", "o", "i", "d", " ", "}">> }
DocSuffixes == { <<>>, <<"\n">> \o <<"s", "t", "r", "u", "c", "t", " ", "Z", " ", "{", " ", "1", ":", " ", "b", "o", "o", "l", " ", "z", " ", "}">> }
DocCases ==
  [ rule : {"parse_thrift_document"}, pre : DocPrefixes,
    mal : Malformed \cup {<<>>}, post : DocSuffixes ]
DocText(c) == c.pre \o c.mal \o c.post

\* -- field ids -----------------------------------------------------------------
\* Digit runs: small, with leading zeros, the largest usize (also with leading
\* zeros), the next number, and longer runs.
IdDigits ==
  { <<"1">>, <<"0">>, <<"0", "0", "7">>, <<"6", "5", "5", "3", "5">>, UsizeMax, <<"0", "0", "0">> \o UsizeMax,
    <<"1", "8", "4", "4", "6", "7", "4", "4", "0", "7", "3", "7", "0", "9", "5", "5", "1", "6", "1", "6">>, <<"9", "9", "9", "9", "9", "9", "9", "9", "9", "9", "9", "9", "9", "9", "9", "9", "9", "9", "9", "9">>, <<"1", "0", "0", "0", "0", "0", "0", "0", "0", "0", "0", "0", "0", "0", "0", "0", "0", "0", "0", "0", "0">> }
FieldIdCases == [ rule : {"field_id"}, digits : IdDigits, colon : BOOLEAN, lead : {<<>>, <<" ">>, <<"\n", " ">>} ]
FieldIdText(c) == c.lead \o c.digits \o (IF c.colon THEN <<":">> ELSE <<>>) \o <<" ", "i", "3", "2", " ", "a">>

\* -- documents to visit -------------------------------------------------------
\* Top-level definitions of a document.
MaxDefs == 3
DefTexts ==
  << <<"n", "a", "m", "e", "s", "p", "a", "c", "e", " ", "x", " ", "a", ".", "b", ".", "c">> \o <<"\n">>,
     <<"i", "n", "c", "l", "u", "d", "e", " ", "\"", "a", ".", "t", "h", "r", "i", "f", "t", "\"">> \o <<"\n">>,
     <<"i", "n", "c", "l", "u", "d", "e", " ", "\"", "d", "/", "b", ".", "t", "h", "r", "i", "f", "t", "\"">> \o <<"\n">>,
     <<"s", "t", "r", "u", "c", "t", " ", "Y", " ", "{", " ", "1", ":", " ", "o", "p", "t", "i", "o", "n", "a", "l", " ", "i", "3", "2", " ", "n", " ", "2", ":", " ", "s", "t", "r", "i", "n", "g", " ", "s", " ", "}">> \o <<"\n">>,
     <<"e", "n", "u", "m", " ", "E", " ", "{", " ", "A", " ", "B", " ", "=", " ", "1", " ", "}">> \o <<"\n">>,
     <<"s", "e", "r", "v", "i", "c", "e", " ", "S", " ", "{", " ", "v", "o", "i", "d", " ", "F", "(", "1", ":", " ", "s", "t", "r", "i", "n", "g", " ", "s", ")", " ", "}">> \o <<"\n">> >>
VisitCases ==
  [ rule : {"visit_document"},
    defs : UNION { [1..k -> 1..Len(DefTexts)] : k \in 0..MaxDefs } ]
VisitText(c) == Concat([n \in 1..Len(c.defs) |-> DefTexts[c.defs[n]]])

\* The driver stands still during parser runs.
DriverIdle ==
  /\ world = [ includes |-> [f \in SrcFiles |-> {}], bad |-> {},
               input |-> <<>>, stale |-> [dirs |-> {}, files |-> {}] ]
  /\ driver = "idle"
  /\ next_input = 1
  /\ result = NoResult
  /\ queue = EmptyBag
  /\ running = EmptyBag
  /\ seen = {}
  /\ senders = 0
  /\ chan = <<>>
  /\ rx_alive = FALSE
  /\ panic = "none"
  /\ aborted = FALSE
  /\ lost = 0
  /\ out_files = {}
  /\ out_dirs = {}
  /\ reads = ZeroCount
  /\ writes = ZeroCount
  /\ written = {}
  /\ sent = <<>>
  /\ teardowns = 0
  /\ submitted = 0

NotRun == [st |-> "none"]

ParseInit ==
  /\ DriverIdle
  /\ presult = NotRun
  /\ \/ pcase \in TypeCases /\ ptext = Render(pcase.type, pcase.sep)
     \/ pcase \in CommentCases /\ ptext = CommentText(pcase)
     \/ pcase \in DocCases /\ ptext = DocText(pcase)
     \/ pcase \in FieldCases /\ ptext = FieldText(pcase)
     \/ pcase \in VisitCases /\ ptext = VisitText(pcase)
     \/ pcase \in FieldIdCases /\ ptext = FieldIdText(pcase)

RunThriftType ==
  /\ presult = NotRun /\ pcase.rule = "thrift_type"
  /\ presult' = thrift_type(ptext)
  /\ UNCHANGED <<world, drv_vars, pcase, ptext>>

RunStructDefinition ==
  /\ presult = NotRun /\ pcase.rule = "struct_definition"
  /\ presult' = struct_definition(ptext)
  /\ UNCHANGED <<world, drv_vars, pcase, ptext>>

RunEnumDefinition ==
  /\ presult = NotRun /\ pcase.rule = "enum_definition"
  /\ presult' = enum_definition(ptext)
  /\ UNCHANGED <<world, drv_vars, pcase, ptext>>

RunParseThriftDocument ==
  /\ presult = NotRun /\ pcase.rule = "parse_thrift_document"
  /\ presult' = parse_thrift_document(ptext)
  /\ UNCHANGED <<world, drv_vars, pcase, ptext>>

RunFieldDefinition ==
  /\ presult = NotRun /\ pcase.rule = "field_definition"
  /\ presult' = field_definition(ptext)
  /\ UNCHANGED <<world, drv_vars, pcase, ptext>>

\* compile.rs 111-132: the text is parsed and a new DepsVisitor visits the
\* document.
RunVisitDocument ==
  /\ presult = NotRun /\ pcase.rule = "visit_document"
  /\ presult' = [ st |-> "visited",
                  ast |-> parse_thrift_document(ptext),
                  out |-> visit_document(DepsVisitor_new, parse_thrift_document(ptext).val) ]
  /\ UNCHANGED <<world, drv_vars, pcase, ptext>>

RunFieldId ==
  /\ presult = NotRun /\ pcase.rule = "field_id"
  /\ presult' = field_id(ptext)
  /\ UNCHANGED <<world, drv_vars, pcase, ptext>>

ParseNext ==
  \/ RunThriftType
  \/ RunStructDefinition
  \/ RunEnumDefinition
  \/ RunParseThriftDocument
  \/ RunFieldDefinition
  \/ RunVisitDocument
  \/ RunFieldId

ParseSpec == ParseInit /\ [][ParseNext]_vars

(***************************************************************************)
(* Properties of the compile driver.                                       *)
(***************************************************************************)
Returned == driver = "returned"
Quiet == queue = EmptyBag /\ running = EmptyBag
BadReachable == Reachable(world) \cap world.bad # {}
\* The files f includes, as locations.
Targets(f) == { Walk(<<>>, Join(Front(f), d)).loc : d \in world.includes[f] }
\* Two distinct reachable files include each other.
IncludeCycle ==
  \E f, g \in Reachable(world) : f # g /\ g \in Targets(f) /\ f \in Targets(g)

\* C1: in one run every source file is read, parsed and written at most once,
\* whatever the include graph and the spelling of the include paths, and
\* exactly once, when the run succeeds with no task panicked, if the inputs
\* reach it.
C1_EachFileOnce ==
  /\ \A f \in SrcFiles : reads[f] <= 1 /\ writes[f] <= 1
  /\ (result = OkResult /\ panic = "none") =>
        \A f \in Reachable(world) : reads[f] = 1 /\ writes[f] = 1

\* C2: when two files include each other, however the include paths are
\* written, compile terminates: the run can stop only with compile returned,
\* every task finished and the outputs of the files written.
C2_CycleTerminates ==
  (IncludeCycle /\ world.bad = {} /\ ~ENABLED Next) =>
     /\ Returned /\ result = OkResult /\ Quiet /\ ~aborted
     /\ \A f \in Reachable(world) : writes[f] >= 1

\* C3: when no reachable file fails to parse, compile returns Ok, and only
\* after every submitted task has finished and every sender clone is dropped:
\* every reachable file has then been written and its output is on disk.
C3_CleanRun ==
  (Returned /\ ~BadReachable) =>
     /\ result = OkResult
     /\ Quiet /\ senders = 0
     /\ \A f \in Reachable(world) : writes[f] >= 1
     /\ written \subseteq out_files
     /\ Cardinality(written) >= 1

\* C4: when a reachable file fails to parse, compile does not return Ok: it
\* returns Err(m), m the first message sent on the channel, of the form
\* "Compiler failed: <relative-path>. <message>" with the path, relative to
\* src_dir, of a task whose file failed to parse.
C4_ErrorShortCircuit ==
  (Returned /\ BadReachable) =>
     /\ result.kind = "Err"
     /\ Len(sent) >= 1 /\ result.msg = sent[1]
     /\ \E file \in seen :
          /\ HasPrefix(file, src_dir)
          /\ Walk(<<>>, file).loc \in world.bad
          /\ result.msg = [head |-> "Compiler failed: ",
                           relative_file |-> StripPrefix(file, src_dir),
                           err |-> "parse error"]

\* C5: once the driver has returned the first error, the remaining tasks run
\* to completion: a further parse error is discarded, its send does not crash
\* the task.
C5_LateErrorsDiscarded == panic # "send"

\* C6: the removal of an existing out_dir happens once and before the first
\* task is submitted; no file written in this run is deleted, and a file of a
\* prior run that this run does not write again is gone after a successful run.
C6_OutputScrubbing ==
  /\ teardowns <= 1
  /\ driver # "teardown" => teardowns = (IF world.stale.dirs # {} THEN 1 ELSE 0)
  /\ submitted > 0 => driver # "teardown"
  /\ written \subseteq out_files
  /\ result = OkResult => \A f \in world.stale.files : f \in out_files => f \in written

\* A successful run over an out_dir of a prior run: one stale file is written
\* again, the other is gone.
C6_Witness ==
  /\ result = OkResult /\ teardowns = 1
  /\ \E f \in world.stale.files : f \in out_files
  /\ \E f \in world.stale.files : f \notin out_files

\* C7: every output a task writes lies inside out_dir: no task writes outside
\* the out_dir tree, whatever the include paths are.
C7_OutputInsideOutDir == \A loc \in written : UnderOut(loc)

\* C12: the pool cannot get stuck: with the inputs given relative to src_dir,
\* as long as a task is queued or running a worker can take a step, so every
\* submitted task starts and finishes.
C12_PoolNeverStuck ==
  ((\A i \in 1..Len(world.input) : ~world.input[i].abs) /\ ~Quiet) => ENABLED TaskNext

\* C13: the step of a task that has read a file and found that it does not
\* parse sends exactly one message and nothing else: no panic, no output file, no directory, no task
\* for an include of the file, and seen keeps its entries.
C13_ParseErrorTask ==
  [][ \A t \in BagToSet(running) :
        (/\ t.pc = "parse" /\ HasPrefix(t.file, src_dir)
         /\ ReadFile(t) \in world.bad
         /\ running' = Finish(t)) =>
          /\ Len(sent') = Len(sent) + 1
          /\ panic' = panic
          /\ UNCHANGED <<out_files, out_dirs, written, writes, queue, submitted, seen>> ]_vars

(***************************************************************************)
(* Properties of the parser.                                               *)
(***************************************************************************)
Ran == presult # NotRun
CommentRun == Ran /\ pcase.rule \in {"struct_definition", "enum_definition"}
\* The fields of the parsed struct, the members of the parsed enum.
Nodes == IF pcase.rule = "struct_definition" THEN presult.val.fields ELSE presult.val.members
\* The first node holds its leading comments in source order and then the
\* inline comment; the second node holds its own leading comments only.
Attached ==
  /\ presult.st = "ok"
  /\ presult.rest = <<>>
  /\ Len(Nodes) = 2
  /\ Len(Nodes[1].comments) = Len(pcase.lead) + 1
  /\ Nodes[1].comments = LeadComments(pcase.lead, "p") \o <<InlineComment>>
  /\ Nodes[2].comments = LeadComments(pcase.next, "q")

\* C8: a field (or enum member) preceded by k leading comments and followed,
\* after at least one space or tab, by an inline // comment on the same line
\* has k+1 comments: the leading ones in source order, then the inline one,
\* which is not attached to the following node.
C8_InlineAttached == (CommentRun /\ pcase.gap # <<>>) => Attached

C8_Witness ==
  /\ CommentRun /\ pcase.gap # <<>>
  /\ pcase.rule = "struct_definition"
  /\ pcase.lead = <<"Block", "Line">> /\ pcase.next # <<>>
  /\ presult.st = "ok" /\ Len(presult.val.fields[1].comments) = 3

\* C8 as stated, for every inline comment on the same line, also one that
\* follows the node with no space between.
C8_InlineAttached_Unseparated == CommentRun => Attached

\* C9: thrift_type consumes the whole of every type expression of nesting
\* depth at most 3 and returns the corresponding tree.
C9_TypeGrammar ==
  (Ran /\ pcase.rule = "thrift_type") => presult = POk(<<>>, pcase.type)

DocRun == Ran /\ pcase.rule = "parse_thrift_document"
\* C10: the document parser does not report success for a document that
\* contains a malformed definition, and does not panic.
C10_MalformedRejected == (DocRun /\ pcase.mal # <<>>) => presult.st = "err"

FieldRun == Ran /\ pcase.rule = "field_definition"
\* C11: the primitive keywords are tried before the identifier in the type
\* position only: a field whose name is one of the seven primitive keywords,
\* as in `1: i32 string`, is accepted, with that name and the type written.
C11_KeywordNameAccepted ==
  (FieldRun /\ pcase.name \in PrimitiveKeywords) =>
     /\ presult.st = "ok" /\ presult.rest = <<>>
     /\ presult.val.name = pcase.name
     /\ presult.val.field_type = thrift_type(pcase.type).val

C11_Witness ==
  /\ FieldRun /\ pcase.name = <<"s", "t", "r", "i", "n", "g">>
  /\ pcase.type = <<"i", "3", "2">>
  /\ presult.st = "ok" /\ presult.val.name = <<"s", "t", "r", "i", "n", "g">>
  /\ presult.val.field_type = Primitive("I32")

\* C11 as stated: field_definition does not accept a field whose name is one
\* of the seven primitive keywords.
C11_KeywordNameRejected ==
  (FieldRun /\ pcase.name \in PrimitiveKeywords) => presult.st = "err"

VisitRun == Ran /\ pcase.rule = "visit_document"
TopHooks ==
  [ Namespace |-> "visit_namespace_definition", Include |-> "visit_include_definition",
    Struct |-> "visit_struct_definition", Enum |-> "visit_enum_definition",
    Service |-> "visit_service_definition" ]
IsTopHook(h) == \E k \in DOMAIN TopHooks : TopHooks[k] = h
IncludePathsOf(body) == { body[n].path : n \in { m \in 1..Len(body) : body[m].kind = "Include" } }

\* C14: after visit_document on a new DepsVisitor, deps is exactly the set of
\* paths of the document's Include definitions, each top-level definition
\* was dispatched once, in source order, to the hook of its variant, and the
\* document is unchanged.
C14_DependencyScan ==
  VisitRun =>
    /\ presult.out.self.deps = IncludePathsOf(presult.ast.val.body)
    /\ SelectSeq(presult.out.self.calls, IsTopHook)
         = [n \in 1..Len(presult.ast.val.body) |-> TopHooks[presult.ast.val.body[n].kind]]
    /\ presult.out.document = presult.ast.val

C14_Witness ==
  /\ VisitRun /\ pcase.defs = <<2, 4, 2>>
  /\ presult.ast.st = "ok" /\ presult.ast.rest = <<"\n">> /\ Len(presult.ast.val.body) = 3
  /\ Cardinality(presult.out.self.deps) = 1
  /\ Len(presult.out.self.calls) = 5

\* C15: on a run of decimal digits of any length, field_id yields a FieldId
\* or a parse error, never a panic, and the FieldId is the number written.
C15_FieldIdTotal ==
  (Ran /\ pcase.rule = "field_id") =>
     /\ presult.st \in {"ok", "err"}
     /\ presult.st = "ok" => presult.val = StripZeros(pcase.digits)

====
